---- MODULE Spec2Model ----
(***************************************************************************)
(* DriftDB Python client (clients/python/driftdb/client.py): the           *)
(* ConnectionPool, Client.query and the Transaction context manager, as a  *)
(* state machine of concurrent asyncio tasks.  A step is the code a task   *)
(* runs between two suspension points (await on the idle queue, on the     *)
(* pool lock, on the socket).                                              *)
(***************************************************************************)
EXTENDS Integers, Sequences, FiniteSets, TLC

\* ------------------------------------------------------------------ bounds
NumTasks    == 2    \* concurrent callers of the client
MaxPoolSize == 2    \* largest max_size / min_size the pool is built with
MaxTx       == 1    \* transaction objects the callers create
MaxCalls    == 1    \* calls of execute/commit/rollback the callers make on them
MaxAddrLen  == 3    \* longest address string given to Client.connect
MaxSeq      == 12   \* largest sequence number given to query_at_seq
MaxCancels  == 1    \* calls of Client.query that are cancelled

Tasks  == 1..NumTasks
NoTask == 0
NoConn == 0

\* Replies of the server / transport to one written request
\* (Connection.execute, client.py:57-75).
Replies == {"ok", "error", "invalid", "fault"}
\* Request texts sent on a connection.
Texts == {"BEGIN", "STMT", "COMMIT", "ROLLBACK"}
NoReqs == [x \in Texts |-> 0]

VARIABLES
    min_size, max_size,  \* ConnectionPool.min_size / max_size
    size,                \* ConnectionPool._size
    available,           \* ConnectionPool._available: the items of the asyncio.Queue
    getters,             \* tasks suspended in _available.get(), in arrival order
    woken,               \* getters whose wait was resolved by a put and that have not run yet
    lock,                \* ConnectionPool._lock: the task holding it, or NoTask
    connected,           \* Connection._connected of every connection created, by identity
    initPc,              \* ConnectionPool.initialize: "init", "ready" or "failed"
    wclosed,             \* whether close() was called on the StreamWriter of each connection
    closePc,             \* ConnectionPool.close: "open", "closing", "closed" (or "raised")
    closeConn,           \* the connection ConnectionPool.close took and is closing
    broken,              \* whether the transport of each connection was lost
    pc,                  \* where each task is suspended
    kind,                \* what each task runs: "query", "tx", "unentered"
    afterClose,          \* whether the pool's close() had returned when the task made its call
    held,                \* the connection a task got from acquire and has not released
    txConn,              \* Transaction._conn of the task's transaction object
    reqs,                \* requests each task has written, by text
    nRelease,            \* pool.release calls each task has made
    bodyRaised,          \* whether the body of the task's transaction scope raised
    result,              \* how the task's last operation ended
    calls,               \* calls of execute/commit/rollback made on the task's transaction object
    conn,                \* a Connection object used on its own: its fields and its last call
    client,              \* the last call of Client.connect / query_at_seq / query_at_time
    unread               \* replies left unread in the stream of each connection by calls
                         \* that ended between their write and their readline

closeVars == <<wclosed, closePc, closeConn>>
poolVars == <<min_size, max_size, size, available, getters, woken, lock, connected, initPc,
             closeVars, broken>>
taskVars == <<pc, kind, afterClose, held, txConn, reqs, nRelease, bodyRaised, result, calls>>
apiVars == <<conn, client>>
vars == <<poolVars, taskVars, apiVars, unread>>

Range(s) == {s[i] : i \in DOMAIN s}

RECURSIVE SumTo(_, _)
SumTo(f, n) == IF n = 0 THEN 0 ELSE f[n] + SumTo(f, n - 1)

\* Callers are numbered in the order in which they make their call.
IsNextCaller(t) == pc[t] = "start" /\ \A u \in Tasks : u < t => pc[u] # "start"

\* The workload so far, against its bounds.
TxObjects == Cardinality({t \in Tasks : kind[t] \in {"tx", "unentered"}})
TotalCalls == SumTo(calls, NumTasks)

\* ------------------------------------------------------- asyncio.Queue
\* The idle queue as a record, so that one step can apply several operations.
Q == [items |-> available, getters |-> getters, woken |-> woken]

SetQ(q) ==
    /\ available' = q.items
    /\ getters' = q.getters
    /\ woken' = q.woken

\* The items of the queue after a put of c.
ItemsAfterPut_Dropped(items, c) == items
ItemsAfterPut(items, c) == Append(items, c)

\* Queue.put on an unbounded queue: append, then wake the first waiting getter.
put_nowait_Twice(q, c) ==
    [items   |-> Append(ItemsAfterPut(q.items, c), c),
     getters |-> IF q.getters = <<>> THEN <<>> ELSE Tail(q.getters),
     woken   |-> IF q.getters = <<>> THEN q.woken ELSE q.woken \cup {Head(q.getters)}]
put_nowait(q, c) ==
    [items   |-> ItemsAfterPut(q.items, c),
     getters |-> IF q.getters = <<>> THEN <<>> ELSE Tail(q.getters),
     woken   |-> IF q.getters = <<>> THEN q.woken ELSE q.woken \cup {Head(q.getters)}]

\* The item a get takes from a queue that has items: the oldest.
popleft_Newest(items) == items[Len(items)]
popleft(items) == Head(items)

\* The items left in the queue after a get took its head.
ItemsAfterGet_Peek(items) == items
ItemsAfterGet(items) == Tail(items)

get_nowait(q) == [q EXCEPT !.items = ItemsAfterGet(q.items)]

\* Queue.get on an empty queue: the getter is appended to the waiters.
park(q, t) == [q EXCEPT !.getters = Append(q.getters, t)]

RemoveFrom(s, t) == SelectSeq(s, LAMBDA x : x # t)

\* A getter cancelled by wait_for's timeout: it leaves the waiters; if its wait had
\* already been resolved and an item is still there, the next getter is woken.
cancel_get(q, t) ==
    LET q1 == [q EXCEPT !.getters = RemoveFrom(q.getters, t), !.woken = q.woken \ {t}]
    IN  IF t \in q.woken /\ q.items # <<>> /\ q1.getters # <<>>
        THEN [q1 EXCEPT !.getters = Tail(q1.getters),
                        !.woken = q1.woken \cup {Head(q1.getters)}]
        ELSE q1

\* ------------------------------------------------------- Connection.execute
\* The synchronous head of Connection.execute: the request is written only on a
\* connected connection.
CanSend(isConn) == isConn

\* The transport of connection c cannot carry a request: its writer was closed or
\* the connection was lost.  The write is dropped and drain() raises.
Dead(c) == wclosed[c] \/ broken[c]

\* What Connection.execute does with a request before any response: it raises
\* ConnectionError("Not connected to server") when _connected is false, it raises
\* QueryError when the transport is dead, else the request is sent.
SendOutcome(isConn, dead) ==
    IF ~CanSend(isConn) THEN "NotConnected" ELSE IF dead THEN "QueryError" ELSE "sent"

\* A transport fault during the exchange means the connection was lost; execute
\* raises QueryError and leaves _connected as it is.
Breaks(reply) == reply = "fault"
BrokenAfter(c, reply) == IF Breaks(reply) THEN [broken EXCEPT ![c] = TRUE] ELSE broken

\* Connection c cannot carry an exchange: it is not connected or its transport is dead.
Unusable(c) == ~connected[c] \/ Dead(c)

\* ConnectionPool.release: the connection is put into the idle queue as it is.
release_Validated(q, c) == IF Unusable(c) THEN q ELSE put_nowait(q, c)
release(q, c) == put_nowait(q, c)

\* The exception Connection.execute raises for a reply, "ok" when it returns a result.
\* ("NotConnected" stands for its ConnectionError("Not connected to server"), and
\* "TransactionNotStarted" for the QueryError("Transaction not started") of Transaction.)
ExecResult_Masked(reply) == IF reply \in {"ok", "fault"} THEN "ok" ELSE "QueryError"
ExecResult(reply) == IF reply = "ok" THEN "ok" ELSE "QueryError"

AddReq(r, t, text) == [r EXCEPT ![t][text] = @ + 1]

\* ------------------------------------------------------- ConnectionPool.initialize
\* Connection.__init__: no reader or writer, not connected.  op, result, message
\* and wrote record the last call made on the object: the method, what it returned
\* ("ok") or raised, the message of the exception, and whether it put a request on
\* the link.  lost: the transport was lost with an error.
NewConnection ==
    [connected |-> FALSE, writer |-> "none", lost |-> FALSE,
     op |-> "none", result |-> "none", message |-> <<>>, wrote |-> FALSE]

\* No call of Client.connect, query_at_seq or query_at_time was made yet.
NoCall == [op |-> "none", args |-> <<>>, result |-> "none", submitted |-> <<>>]

Init ==
    /\ max_size \in 1..MaxPoolSize
    /\ min_size \in 0..MaxPoolSize
    /\ size = 0
    /\ available = <<>>
    /\ getters = <<>>
    /\ woken = {}
    /\ lock = NoTask
    /\ connected = <<>>
    /\ initPc = "init"
    /\ wclosed = <<>>
    /\ broken = <<>>
    /\ closePc = "open"
    /\ closeConn = NoConn
    /\ pc = [t \in Tasks |-> "start"]
    /\ kind = [t \in Tasks |-> "none"]
    /\ afterClose = [t \in Tasks |-> FALSE]
    /\ held = [t \in Tasks |-> NoConn]
    /\ txConn = [t \in Tasks |-> NoConn]
    /\ reqs = [t \in Tasks |-> NoReqs]
    /\ nRelease = [t \in Tasks |-> 0]
    /\ bodyRaised = [t \in Tasks |-> FALSE]
    /\ result = [t \in Tasks |-> "none"]
    /\ calls = [t \in Tasks |-> 0]
    /\ conn = NewConnection
    /\ client = NoCall
    /\ unread = [c \in 1..MaxPoolSize |-> 0]

\* The identity of the Connection object _create_connection constructs: a new one.
NewConn_Same == IF connected = <<>> THEN Len(connected) + 1 ELSE Len(connected)
NewConn == Len(connected) + 1

\* The number of iterations of "for _ in range(self.min_size)".
Iterations_OneLess == min_size - 1
Iterations == min_size

\* One iteration of the loop of initialize: _create_connection succeeded and the
\* connection was put on the queue.
InitializeStep ==
    /\ initPc = "init"
    /\ size < Iterations
    /\ connected' = Append(connected, TRUE)
    /\ wclosed' = Append(wclosed, FALSE)
    /\ broken' = Append(broken, FALSE)
    /\ size' = size + 1
    /\ SetQ(put_nowait(Q, NewConn))
    /\ UNCHANGED <<apiVars, unread, min_size, max_size, lock, initPc, closePc, closeConn, taskVars>>

\* The idle queue once the exception of a failed iteration has left initialize: the
\* loop has no handler, so the queue keeps what the earlier iterations put there.
IdleAfterFailure_Emptied(items) == SubSeq(items, 1, 0)
IdleAfterFailure(items) == items

\* The connect of an iteration failed: initialize propagates the error.
InitializeFail ==
    /\ initPc = "init"
    /\ size < Iterations
    /\ initPc' = "failed"
    /\ available' = IdleAfterFailure(available)
    /\ UNCHANGED <<apiVars, unread, min_size, max_size, size, getters, woken, lock, connected,
                   closeVars, broken, taskVars>>

\* The loop ran min_size times: initialize returns and Client.connect hands out the client.
InitializeDone ==
    /\ initPc = "init"
    /\ size >= Iterations
    /\ initPc' = "ready"
    /\ UNCHANGED <<apiVars, unread, min_size, max_size, size, available, getters, woken, lock, connected,
                   closeVars, broken, taskVars>>

\* ------------------------------------------------------- what follows acquire
\* acquire returned connection c to task t running k; q is the queue after the step
\* so far, isConn is c's _connected, dead whether its transport is dead.
\* A caller of pool.acquire itself ("direct") holds the connection.
\* Client.query goes on to conn.execute, and releases in its finally when execute
\* raises at once (not connected); on a dead transport execute raises out of
\* drain(), which yields first.  Transaction.__aenter__ binds the connection and
\* sends BEGIN TRANSACTION.
Acquired(t, k, c, q, isConn, dead) ==
    IF k = "query"
    THEN IF SendOutcome(isConn, dead) = "sent"
         THEN /\ SetQ(q)
              /\ held' = [held EXCEPT ![t] = c]
              /\ reqs' = AddReq(reqs, t, "STMT")
              /\ pc' = [pc EXCEPT ![t] = "query_reply"]
              /\ UNCHANGED <<nRelease, result, txConn>>
         ELSE IF SendOutcome(isConn, dead) = "QueryError"
         THEN /\ SetQ(q)
              /\ held' = [held EXCEPT ![t] = c]
              /\ pc' = [pc EXCEPT ![t] = "drain"]
              /\ UNCHANGED <<nRelease, result, reqs, txConn>>
         ELSE /\ SetQ(release(q, c))
              /\ nRelease' = [nRelease EXCEPT ![t] = @ + 1]
              /\ result' = [result EXCEPT ![t] = SendOutcome(isConn, dead)]
              /\ pc' = [pc EXCEPT ![t] = "done"]
              /\ UNCHANGED <<held, reqs, txConn>>
    ELSE IF k = "direct"
    THEN /\ SetQ(q)
         /\ held' = [held EXCEPT ![t] = c]
         /\ pc' = [pc EXCEPT ![t] = "holding"]
         /\ UNCHANGED <<nRelease, result, reqs, txConn>>
    ELSE /\ SetQ(q)
         /\ held' = [held EXCEPT ![t] = c]
         /\ txConn' = [txConn EXCEPT ![t] = c]
         /\ IF SendOutcome(isConn, dead) = "sent"
            THEN /\ reqs' = AddReq(reqs, t, "BEGIN")
                 /\ pc' = [pc EXCEPT ![t] = "begin_reply"]
                 /\ UNCHANGED <<nRelease, result>>
            ELSE /\ result' = [result EXCEPT ![t] = SendOutcome(isConn, dead)]
                 /\ pc' = [pc EXCEPT ![t] = "done"]
                 /\ UNCHANGED <<nRelease, reqs>>

\* acquire raised err (the connect made under the guard failed).
AcquireFailed(t, err) ==
    /\ result' = [result EXCEPT ![t] = err]
    /\ pc' = [pc EXCEPT ![t] = "done"]
    /\ UNCHANGED <<held, txConn, reqs, nRelease>>

\* ------------------------------------------------------- ConnectionPool.acquire
\* _available.get() from its emptiness test on: take the head, or wait in phase ph
\* ("poll": under wait_for's timeout, "wait": the unbounded wait at capacity).
Get(t, k, q, ph) ==
    IF q.items # <<>>
    THEN Acquired(t, k, popleft(q.items), get_nowait(q), connected[popleft(q.items)],
                  Dead(popleft(q.items)))
    ELSE /\ SetQ(park(q, t))
         /\ pc' = [pc EXCEPT ![t] = ph]
         /\ UNCHANGED <<held, txConn, reqs, nRelease, result>>

\* The guard of the create path is free.
LockFree_Ignored == TRUE
LockFree == lock = NoTask

\* The capacity check made under the guard.
HasRoom_OffByOne == size <= max_size
HasRoom == size < max_size

\* The body of "async with self._lock" once the lock is granted to t: with room, the
\* connect starts and t keeps the lock while it is suspended in it; at capacity the
\* lock is released and t falls back to the unbounded get.
Guarded(t, q) ==
    IF HasRoom
    THEN /\ lock' = t
         /\ SetQ(q)
         /\ pc' = [pc EXCEPT ![t] = "connecting"]
         /\ UNCHANGED <<held, txConn, reqs, nRelease, result>>
    ELSE /\ lock' = NoTask
         /\ Get(t, kind[t], q, "wait")

\* A caller starts Client.query or enters a transaction scope: acquire is called and
\* its first get runs.
Call(t, k) ==
    /\ initPc = "ready"
    /\ IsNextCaller(t)
    /\ k = "tx" => TxObjects < MaxTx
    /\ kind' = [kind EXCEPT ![t] = k]
    /\ afterClose' = [afterClose EXCEPT ![t] = closePc = "closed"]
    /\ Get(t, k, Q, "poll")
    /\ UNCHANGED <<apiVars, unread, min_size, max_size, size, lock, connected, initPc, closeVars, broken,
                   bodyRaised, calls>>

\* A getter woken by a put runs again: it takes the head if an item is (still)
\* there, else it waits again, behind the getters that arrived meanwhile.
Resume(t) ==
    /\ pc[t] \in {"poll", "wait"}
    /\ t \in woken
    /\ Get(t, kind[t], [Q EXCEPT !.woken = woken \ {t}], pc[t])
    /\ UNCHANGED <<apiVars, unread, min_size, max_size, size, lock, connected, initPc, closeVars, broken,
                   kind, afterClose, bodyRaised, calls>>

\* The 1-second timeout of the poll fires: the get is cancelled and t goes for the
\* lock; it waits for it when another task holds it.
PollTimeout(t) ==
    /\ pc[t] = "poll"
    /\ IF LockFree
       THEN Guarded(t, cancel_get(Q, t))
       ELSE /\ SetQ(cancel_get(Q, t))
            /\ pc' = [pc EXCEPT ![t] = "lock_wait"]
            /\ UNCHANGED <<lock, held, txConn, reqs, nRelease, result>>
    /\ UNCHANGED <<apiVars, unread, min_size, max_size, size, connected, initPc, closeVars, broken,
                   kind, afterClose, bodyRaised, calls>>

\* The lock is granted to a task waiting for it.
LockGranted(t) ==
    /\ pc[t] = "lock_wait"
    /\ LockFree
    /\ Guarded(t, Q)
    /\ UNCHANGED <<apiVars, unread, min_size, max_size, size, connected, initPc, closeVars, broken,
                   kind, afterClose, bodyRaised, calls>>

\* _create_connection under the guard: the connect succeeded, _size is incremented,
\* the lock is released and acquire returns the new connection.
ConnectOk(t) ==
    /\ pc[t] = "connecting"
    /\ connected' = Append(connected, TRUE)
    /\ wclosed' = Append(wclosed, FALSE)
    /\ broken' = Append(broken, FALSE)
    /\ size' = size + 1
    /\ lock' = NoTask
    /\ Acquired(t, kind[t], NewConn, Q, TRUE, FALSE)
    /\ UNCHANGED <<apiVars, unread, min_size, max_size, initPc, closePc, closeConn,
                   kind, afterClose, bodyRaised, calls>>

\* The holder of the guard once the exception of the connect has left the block
\* of "async with self._lock": nobody.
LockAfterFailure_Kept(t) == t
LockAfterFailure(t) == NoTask

\* The connect failed (ConnectionError) or timed out (TimeoutError): the lock is
\* released and acquire raises.
ConnectFail(t, err) ==
    /\ pc[t] = "connecting"
    /\ lock' = LockAfterFailure(t)
    /\ AcquireFailed(t, err)
    /\ UNCHANGED <<apiVars, unread, min_size, max_size, size, available, getters, woken, connected, initPc, closeVars, broken,
                   kind, afterClose, bodyRaised, calls>>

\* ------------------------------------------------------- ConnectionPool.close
\* The connections whose writer the pool closes when it closes the one it took.
ClosedByClose_All(c) == DOMAIN connected
ClosedByClose(c) == {c}

\* The bare except of the loop swallows what Connection.close raised.
CloseSwallows_OnlyOk(outcome) == outcome = "ok"
CloseSwallows(outcome) == TRUE

\* One test of "while not self._available.empty()": on an empty queue close returns;
\* else the head is taken (the get finds an item and does not wait) and close is
\* suspended in conn.close(), after writer.close(), in wait_closed().
CloseLoop(q) ==
    IF q.items = <<>>
    THEN /\ closePc' = "closed"
         /\ closeConn' = NoConn
         /\ SetQ(q)
    ELSE /\ closePc' = "closing"
         /\ closeConn' = Head(q.items)
         /\ SetQ(get_nowait(q))

\* ConnectionPool.close (or Client.close) is called.
PoolClose ==
    /\ closePc = "open"
    /\ initPc \in {"ready", "failed"}
    /\ CloseLoop(Q)
    /\ UNCHANGED <<apiVars, unread, min_size, max_size, size, lock, connected, initPc, wclosed, broken,
                   taskVars>>

\* _size once the loop has closed a connection: close() does not touch it.
SizeAfterClose_Decremented(n) == n - 1
SizeAfterClose(n) == n

\* conn.close() of the loop ends: wait_closed returned and _connected is cleared
\* ("ok"), or it raised and _connected stays as it was ("error"); the loop goes on.
ConnCloseEnds(outcome) ==
    /\ closePc = "closing"
    /\ wclosed' = [c \in DOMAIN wclosed |-> wclosed[c] \/ c \in ClosedByClose(closeConn)]
    /\ connected' = IF outcome = "ok"
                    THEN [c \in DOMAIN connected |->
                              connected[c] /\ c \notin ClosedByClose(closeConn)]
                    ELSE connected
    /\ IF CloseSwallows(outcome)
       THEN CloseLoop(Q)
       ELSE /\ closePc' = "raised"
            /\ closeConn' = NoConn
            /\ UNCHANGED <<available, getters, woken>>
    /\ size' = SizeAfterClose(size)
    /\ UNCHANGED <<apiVars, unread, min_size, max_size, lock, initPc, broken, taskVars>>

\* ------------------------------------------------------- Client.query
\* Whether the connection is released for a reply of execute (the finally clause).
QueryReleases_OnSuccess(reply) == reply = "ok"
QueryReleases(reply) == TRUE

\* The reply to the query arrives: execute returns or raises, the finally clause
\* releases the connection, query returns or propagates.
QueryReply(t, reply) ==
    /\ pc[t] = "query_reply"
    /\ result' = [result EXCEPT ![t] = ExecResult(reply)]
    /\ pc' = [pc EXCEPT ![t] = "done"]
    /\ IF QueryReleases(reply)
       THEN /\ SetQ(release(Q, held[t]))
            /\ held' = [held EXCEPT ![t] = NoConn]
            /\ nRelease' = [nRelease EXCEPT ![t] = @ + 1]
       ELSE UNCHANGED <<available, getters, woken, held, nRelease>>
    /\ broken' = BrokenAfter(held[t], reply)
    /\ UNCHANGED <<apiVars, unread, min_size, max_size, size, lock, connected, initPc, closeVars,
                   kind, afterClose, txConn, reqs, bodyRaised, calls>>

\* drain() raises on the dead transport before any response is read: execute raises
\* QueryError and the finally clause of query releases the connection.
DrainRaises(t) ==
    /\ pc[t] = "drain"
    /\ result' = [result EXCEPT ![t] = "QueryError"]
    /\ pc' = [pc EXCEPT ![t] = "done"]
    /\ IF QueryReleases("fault")
       THEN /\ SetQ(release(Q, held[t]))
            /\ held' = [held EXCEPT ![t] = NoConn]
            /\ nRelease' = [nRelease EXCEPT ![t] = @ + 1]
       ELSE UNCHANGED <<available, getters, woken, held, nRelease>>
    /\ UNCHANGED <<apiVars, unread, min_size, max_size, size, lock, connected, initPc, closeVars, broken,
                   kind, afterClose, txConn, reqs, bodyRaised, calls>>

\* ------------------------------------------------------- Transaction
\* The test "if not self._conn" of execute, commit and rollback passes.
HasConn(c) == c # NoConn

\* Whether __aexit__ releases the connection for a reply of its COMMIT or ROLLBACK
\* (the finally clause; _conn is set whenever __aexit__ runs).
ExitReleases_OnSuccess(reply) == reply = "ok"
ExitReleases(reply) == TRUE

\* The request __aexit__ sends: COMMIT when exc_type is None, else ROLLBACK.
ExitText(raised) == IF raised THEN "ROLLBACK" ELSE "COMMIT"

\* How the scope ends for its caller once __aexit__ has run: the failure of its
\* own request, else the failure of the body, else normally.
ScopeResult_Swallowed(raised, res) == res
ScopeResult(raised, res) ==
    IF res # "ok" THEN res ELSE IF raised THEN "BodyError" ELSE "ok"

\* The reply to BEGIN TRANSACTION arrives in __aenter__: the scope is entered, or
\* __aenter__ raises and __aexit__ never runs.
BeginReply(t, reply) ==
    /\ pc[t] = "begin_reply"
    /\ result' = IF reply = "ok" THEN result ELSE [result EXCEPT ![t] = ExecResult(reply)]
    /\ pc' = [pc EXCEPT ![t] = IF reply = "ok" THEN "body" ELSE "done"]
    /\ broken' = BrokenAfter(held[t], reply)
    /\ UNCHANGED <<apiVars, unread, min_size, max_size, size, available, getters, woken, lock, connected,
                   initPc, closeVars,
                   kind, afterClose, held, txConn, reqs, nRelease, bodyRaised, calls>>

\* __aexit__ is entered (raised: the body raised): it sends COMMIT or ROLLBACK on
\* _conn; when execute raises at once (out is not "sent") the finally clause
\* releases.
ExitWith(t, raised, out) ==
    /\ bodyRaised' = [bodyRaised EXCEPT ![t] = raised]
    /\ IF out = "sent"
       THEN /\ reqs' = AddReq(reqs, t, ExitText(raised))
            /\ pc' = [pc EXCEPT ![t] = "exit_reply"]
            /\ UNCHANGED <<available, getters, woken, held, nRelease, result>>
       ELSE /\ pc' = [pc EXCEPT ![t] = "after"]
            /\ result' = [result EXCEPT ![t] = out]
            /\ UNCHANGED reqs
            /\ IF ExitReleases("fault")
               THEN /\ SetQ(release(Q, txConn[t]))
                    /\ held' = [held EXCEPT ![t] = NoConn]
                    /\ nRelease' = [nRelease EXCEPT ![t] = @ + 1]
               ELSE UNCHANGED <<available, getters, woken, held, nRelease>>

ExitScope(t, raised) ==
    ExitWith(t, raised, SendOutcome(connected[txConn[t]], Dead(txConn[t])))

\* The body calls tx.execute (STMT), tx.commit or tx.rollback: the request goes out
\* on _conn.  When it cannot, the call raises and the body with it.
BodyCall(t, text) ==
    /\ pc[t] = "body"
    /\ TotalCalls < MaxCalls
    /\ calls' = [calls EXCEPT ![t] = @ + 1]
    /\ IF HasConn(txConn[t])
          /\ SendOutcome(connected[txConn[t]], Dead(txConn[t])) = "sent"
       THEN /\ reqs' = AddReq(reqs, t, text)
            /\ pc' = [pc EXCEPT ![t] = "body_reply"]
            /\ UNCHANGED <<available, getters, woken, held, nRelease, bodyRaised, result>>
       ELSE ExitScope(t, TRUE)
    /\ UNCHANGED <<apiVars, unread, min_size, max_size, size, lock, connected, initPc, closeVars, broken, kind, afterClose, txConn>>

\* The reply to a request of the body arrives: the call returns and the body goes
\* on, or it raises and the scope is left through __aexit__ with the exception.
BodyReply(t, reply) ==
    /\ pc[t] = "body_reply"
    /\ IF reply = "ok"
       THEN /\ pc' = [pc EXCEPT ![t] = "body"]
            /\ UNCHANGED <<available, getters, woken, held, reqs, nRelease, bodyRaised,
                           result>>
       ELSE ExitWith(t, TRUE, SendOutcome(connected[txConn[t]],
                                         Breaks(reply) \/ Dead(txConn[t])))
    /\ broken' = BrokenAfter(txConn[t], reply)
    /\ UNCHANGED <<apiVars, unread, min_size, max_size, size, lock, connected, initPc, closeVars,
                   kind, afterClose, txConn, calls>>

\* The body raises an exception of its own.
BodyRaise(t) ==
    /\ pc[t] = "body"
    /\ ExitScope(t, TRUE)
    /\ UNCHANGED <<apiVars, unread, min_size, max_size, size, lock, connected, initPc, closeVars, broken, kind, afterClose, txConn, calls>>

\* The body completes.
BodyEnd(t) ==
    /\ pc[t] = "body"
    /\ ExitScope(t, FALSE)
    /\ UNCHANGED <<apiVars, unread, min_size, max_size, size, lock, connected, initPc, closeVars, broken, kind, afterClose, txConn, calls>>

\* The reply to the COMMIT or ROLLBACK of __aexit__ arrives: the finally clause
\* releases _conn, and the scope ends for its caller.
ExitReply(t, reply) ==
    /\ pc[t] = "exit_reply"
    /\ pc' = [pc EXCEPT ![t] = "after"]
    /\ result' = [result EXCEPT ![t] = ScopeResult(bodyRaised[t], ExecResult(reply))]
    /\ IF ExitReleases(reply)
       THEN /\ SetQ(release(Q, txConn[t]))
            /\ held' = [held EXCEPT ![t] = NoConn]
            /\ nRelease' = [nRelease EXCEPT ![t] = @ + 1]
       ELSE UNCHANGED <<available, getters, woken, held, nRelease>>
    /\ broken' = BrokenAfter(txConn[t], reply)
    /\ UNCHANGED <<apiVars, unread, min_size, max_size, size, lock, connected, initPc, closeVars,
                   kind, afterClose, txConn, reqs, bodyRaised, calls>>

\* tx.execute, tx.commit or tx.rollback on a transaction object whose scope has
\* exited: _conn is still set, so the request goes out on it.  On a connection the
\* pool closed meanwhile execute raises: ConnectionError when _connected was cleared,
\* else QueryError (the write on the dead transport is dropped and drain raises).
AfterCall(t, text) ==
    /\ pc[t] = "after"
    /\ TotalCalls < MaxCalls
    /\ calls' = [calls EXCEPT ![t] = @ + 1]
    /\ IF ~HasConn(txConn[t])
       THEN /\ result' = [result EXCEPT ![t] = "TransactionNotStarted"]
            /\ UNCHANGED <<pc, reqs>>
       ELSE IF SendOutcome(connected[txConn[t]], Dead(txConn[t])) # "sent"
            THEN /\ result' = [result EXCEPT ![t] =
                                  SendOutcome(connected[txConn[t]], Dead(txConn[t]))]
                 /\ UNCHANGED <<pc, reqs>>
            ELSE /\ reqs' = AddReq(reqs, t, text)
                 /\ pc' = [pc EXCEPT ![t] = "after_reply"]
                 /\ UNCHANGED result
    /\ UNCHANGED <<apiVars, unread, poolVars, kind, afterClose, held, txConn, nRelease, bodyRaised>>

AfterReply(t, reply) ==
    /\ pc[t] = "after_reply"
    /\ pc' = [pc EXCEPT ![t] = "after"]
    /\ result' = [result EXCEPT ![t] = ExecResult(reply)]
    /\ broken' = BrokenAfter(txConn[t], reply)
    /\ UNCHANGED <<apiVars, unread, min_size, max_size, size, available, getters, woken, lock, connected,
                   initPc, closeVars,
                   kind, afterClose, held, txConn, reqs, nRelease, bodyRaised, calls>>

\* tx.execute, tx.commit or tx.rollback on a transaction object that was never
\* entered: _conn is None and the call raises QueryError("Transaction not started").
UnenteredCall(t, text) ==
    /\ initPc = "ready"
    /\ IsNextCaller(t)
    /\ TxObjects < MaxTx
    /\ TotalCalls < MaxCalls
    /\ kind' = [kind EXCEPT ![t] = "unentered"]
    /\ afterClose' = [afterClose EXCEPT ![t] = closePc = "closed"]
    /\ calls' = [calls EXCEPT ![t] = @ + 1]
    /\ pc' = [pc EXCEPT ![t] = "done"]
    /\ IF ~HasConn(txConn[t])
       THEN /\ result' = [result EXCEPT ![t] = "TransactionNotStarted"]
            /\ UNCHANGED reqs
       ELSE /\ result' = [result EXCEPT ![t] = "ok"]
            /\ reqs' = AddReq(reqs, t, text)
    /\ UNCHANGED <<apiVars, unread, poolVars, held, txConn, nRelease, bodyRaised>>

TxTexts == {"STMT", "COMMIT", "ROLLBACK"}

Next ==
    \/ InitializeStep
    \/ InitializeFail
    \/ InitializeDone
    \/ \E t \in Tasks : \E k \in {"query", "tx"} : Call(t, k)
    \/ \E t \in Tasks : Resume(t)
    \/ \E t \in Tasks : PollTimeout(t)
    \/ \E t \in Tasks : LockGranted(t)
    \/ \E t \in Tasks : ConnectOk(t)
    \/ \E t \in Tasks : \E err \in {"ConnectionError", "TimeoutError"} : ConnectFail(t, err)
    \/ \E t \in Tasks : \E reply \in Replies : QueryReply(t, reply)
    \/ \E t \in Tasks : DrainRaises(t)
    \/ \E t \in Tasks : \E reply \in Replies : BeginReply(t, reply)
    \/ \E t \in Tasks : \E text \in TxTexts : BodyCall(t, text)
    \/ \E t \in Tasks : \E reply \in Replies : BodyReply(t, reply)
    \/ \E t \in Tasks : BodyRaise(t)
    \/ \E t \in Tasks : BodyEnd(t)
    \/ \E t \in Tasks : \E reply \in Replies : ExitReply(t, reply)
    \/ \E t \in Tasks : \E text \in TxTexts : AfterCall(t, text)
    \/ \E t \in Tasks : \E reply \in Replies : AfterReply(t, reply)
    \/ \E t \in Tasks : \E text \in TxTexts : UnenteredCall(t, text)
    \/ PoolClose
    \/ \E outcome \in {"ok", "error"} : ConnCloseEnds(outcome)

Spec == Init /\ [][Next]_vars

\* ------------------------------------------------------- callers that call again
\* A caller whose Client.query has ended makes its next call: it is a new arrival
\* at the pool.
CallAgain(t) ==
    /\ pc[t] = "done"
    /\ kind[t] = "query"
    /\ pc' = [pc EXCEPT ![t] = "start"]
    /\ kind' = [kind EXCEPT ![t] = "none"]
    /\ afterClose' = [afterClose EXCEPT ![t] = FALSE]
    /\ reqs' = [reqs EXCEPT ![t] = NoReqs]
    /\ nRelease' = [nRelease EXCEPT ![t] = 0]
    /\ result' = [result EXCEPT ![t] = "none"]
    /\ UNCHANGED <<apiVars, unread, poolVars, held, txConn, bodyRaised, calls>>

NextReuse ==
    \/ Next
    \/ \E t \in Tasks : CallAgain(t)

\* The workloads in which callers issue one query after another.
SpecReuse == Init /\ [][NextReuse]_vars

\* ------------------------------------------------------- state functions of the claims
\* Task t is inside ConnectionPool.acquire.
InAcquire(t) == pc[t] \in {"poll", "wait", "lock_wait", "connecting"}

\* acquire raised for task t (the errors of Connection.connect).
AcquireRaised(t) == pc[t] = "done" /\ result[t] \in {"ConnectionError", "TimeoutError"}

\* The connections that are checked out.
CheckedOut == {held[t] : t \in Tasks} \ {NoConn}

\* max_size connections exist and all of them are checked out.
Saturated == size = max_size /\ Cardinality(CheckedOut) = max_size

\* The step in which the transaction scope of task t is left (__aexit__ returns or raises).
ScopeExits(t) == pc[t] \in {"body", "body_reply", "exit_reply"} /\ pc'[t] = "after"

\* The step in which __aexit__ of task t sends its request.
ExitSends(t) == pc[t] \in {"body", "body_reply"} /\ pc'[t] = "exit_reply"

\* The transaction of task t has its connection and has not released it.
TxOwns(t) == kind[t] = "tx" /\ txConn[t] # NoConn /\ nRelease[t] = 0

\* The step is a call of execute, commit or rollback on the transaction object of t.
TxCall(t) == calls'[t] = calls[t] + 1

\* C1: once initialize() has completed on a pool with min_size <= max_size, _size
\* never exceeds max_size, under every interleaving of acquire and release.
C1_CapacityInvariant ==
    (initPc = "ready" /\ min_size <= max_size) => size <= max_size

\* C1 witness: the pool grew to max_size through acquire, and an acquirer whose poll
\* timed out found no room under the guard and waits.
C1_Witness ==
    /\ initPc = "ready" /\ min_size < max_size /\ size = max_size
    /\ \E t \in Tasks : pc[t] = "wait"

\* C2: no connection is checked out by two callers at once: an acquire returns a
\* connection another acquire returned only after that one was released.
C2_NoDoubleCheckout ==
    \A t, u \in Tasks : (t # u /\ held[t] # NoConn) => held[t] # held[u]

\* C2 witness: a connection released by one caller is checked out by another.
C2_Witness ==
    \E t, u \in Tasks :
        t # u /\ nRelease[t] = 1 /\ txConn[t] # NoConn /\ held[u] = txConn[t]

\* C3 (as claimed): a scope whose body completes without raising has sent exactly
\* one COMMIT and released its connection exactly once when it is left.
C3_CommitPath ==
    [][\A t \in Tasks :
          (ScopeExits(t) /\ ~bodyRaised'[t])
              => (reqs'[t]["COMMIT"] = 1 /\ nRelease'[t] = 1)]_vars

\* C4 (as claimed): a scope whose body raises has sent exactly one ROLLBACK when it
\* is left, its exit sends no COMMIT, and it released its connection exactly once.
C4_RollbackPath ==
    [][\A t \in Tasks :
          /\ (ExitSends(t) /\ bodyRaised'[t]) => reqs'[t]["COMMIT"] = reqs[t]["COMMIT"]
          /\ (ScopeExits(t) /\ bodyRaised'[t])
                => (reqs'[t]["ROLLBACK"] = 1 /\ nRelease'[t] = 1)]_vars

\* C5 (as claimed): a transaction whose entry failed has no bound connection and
\* holds no connection.
C5_EntryFailureLeaksNothing ==
    \A t \in Tasks :
        (kind[t] = "tx" /\ pc[t] = "done")
            => (result[t] # "ok" /\ txConn[t] = NoConn /\ held[t] = NoConn)

\* C6: when the COMMIT or ROLLBACK of the scope exit fails, the connection is
\* released exactly once (it is back in the idle queue, and no scope releases twice)
\* and the QueryError propagates to the caller.
C6_ExitFailureReleases ==
    [][\A t \in Tasks :
          /\ nRelease'[t] <= 1
          /\ (\E reply \in Replies \ {"ok"} : ExitReply(t, reply))
                => /\ nRelease'[t] = 1
                   /\ held'[t] = NoConn
                   /\ available' = Append(available, txConn[t])
                   /\ result'[t] = "QueryError"]_vars

\* C6 witness: a scope was left with the QueryError of its own COMMIT or ROLLBACK
\* (no call was made on the transaction object), and its connection was released.
C6_Witness ==
    \E t \in Tasks :
        /\ kind[t] = "tx" /\ pc[t] = "after" /\ calls[t] = 0
        /\ result[t] = "QueryError" /\ nRelease[t] = 1

\* C7: a finished Client.query whose acquire succeeded released its connection
\* exactly once, whether execute returned or raised; one whose acquire raised
\* released nothing; and the connection is held until then.
C7_QueryReleases ==
    \A t \in Tasks :
        kind[t] = "query" =>
            /\ pc[t] = "query_reply" => (held[t] # NoConn /\ nRelease[t] = 0)
            /\ (pc[t] = "done" /\ ~AcquireRaised(t)) => (nRelease[t] = 1 /\ held[t] = NoConn)
            /\ AcquireRaised(t) => (nRelease[t] = 0 /\ held[t] = NoConn)

\* C7 witness: a query whose execute raised has released its connection.
C7_Witness ==
    \E t \in Tasks :
        kind[t] = "query" /\ pc[t] = "done" /\ result[t] = "QueryError" /\ nRelease[t] = 1

ExclusiveWhileOwned(t) ==
    TxOwns(t) =>
        /\ txConn[t] \notin Range(available)
        /\ \A u \in Tasks : u # t => held[u] # txConn[t]

\* C9 (as claimed): while a transaction has its connection (from entry to release)
\* no other caller's acquire returns it; and once the transaction released it, the
\* transaction object writes no further request.
C9_TxExclusiveOwnership ==
    [][\A t \in Tasks :
          /\ ExclusiveWhileOwned(t)'
          /\ (kind[t] = "tx" /\ nRelease[t] = 1) => reqs'[t] = reqs[t]]_vars

\* C10 (as claimed): a call of execute on a transaction that is not Active (never
\* entered, or its scope exited) writes no request and raises TransactionNotStarted.
C10_ExecuteOnlyWhenActive ==
    [][\A t \in Tasks :
          (TxCall(t) /\ pc[t] \in {"start", "after"})
              => /\ reqs'[t]["STMT"] = reqs[t]["STMT"]
                 /\ reqs'[t] = reqs[t] => result'[t] = "TransactionNotStarted"]_vars

\* C11 (as claimed): commit() or rollback() on a transaction that is not Active
\* (never entered, or its scope exited) raises TransactionNotStarted and writes no
\* request.
C11_CommitOnlyWhenActive ==
    [][\A t \in Tasks : \A text \in {"COMMIT", "ROLLBACK"} :
          (AfterCall(t, text) \/ UnenteredCall(t, text))
              => (reqs'[t] = reqs[t] /\ result'[t] = "TransactionNotStarted")]_vars

\* The explicit commit() or rollback() the body of task t made has returned.
ExplicitExitReturned(t) ==
    /\ kind[t] = "tx" /\ pc[t] = "body"
    /\ reqs[t]["COMMIT"] + reqs[t]["ROLLBACK"] >= 1

\* C12 (as claimed): once an explicit commit() or rollback() on an Active
\* transaction has returned, the bound connection is released to the pool.
C12_ExplicitExitReleases ==
    \A t \in Tasks :
        ExplicitExitReturned(t)
            => (nRelease[t] = 1 /\ held[t] = NoConn /\ txConn[t] \in Range(available))

\* The step in which task t calls pool.release.
Releases(t) == nRelease'[t] = nRelease[t] + 1

\* C13: release completes in the step that calls it and makes the released
\* connection, unchanged, the last item of the idle queue, with _size unchanged;
\* and a connection leaves the idle queue only from its head, handed to an acquirer
\* (or taken by the pool's close()).
C13_ReleaseReturns ==
    [][/\ \A t \in Tasks :
            (Releases(t) /\ held[t] # NoConn)
                => /\ available' = Append(available, held[t])
                   /\ held'[t] = NoConn
                   /\ connected'[held[t]] = connected[held[t]]
                   /\ wclosed'[held[t]] = wclosed[held[t]]
                   /\ size' = size
       /\ \A c \in Range(available) :
            c \notin Range(available')
                => /\ c = Head(available)
                   /\ (\E u \in Tasks : held[u] = NoConn /\ held'[u] = c) \/ closeConn' = c]_vars

\* C13 witness: the only connection of the pool, released by a query, is checked
\* out again by a later acquire.
C13_Witness ==
    \E t, u \in Tasks :
        /\ t # u /\ size = 1
        /\ kind[t] = "query" /\ pc[t] = "done" /\ nRelease[t] = 1
        /\ held[u] = 1

\* The step in which initialize() returns.
InitializeReturns == initPc = "init" /\ initPc' = "ready"

\* C14: when initialize() returns on a fresh pool, exactly min_size connections
\* were created, all of them are in the idle queue (each once) and connected, and
\* _size = min_size.
C14_InitializeCreatesMinSize ==
    [][InitializeReturns
          => /\ size' = min_size
             /\ Len(connected') = min_size
             /\ available' = [i \in 1..min_size |-> i]
             /\ \A c \in DOMAIN connected' : connected'[c] /\ ~wclosed'[c]]_vars

\* C14 witness: initialize() has returned on a pool with the largest min_size, and
\* nothing else has happened yet.
C14_Witness ==
    /\ initPc = "ready" /\ min_size = MaxPoolSize /\ size = min_size
    /\ Len(available) = min_size
    /\ closePc = "open" /\ \A t \in Tasks : pc[t] = "start"

\* C15 (as claimed): once initialize() has completed, min_size <= _size <= max_size
\* in every reachable state, for every pair (min_size, max_size) the constructor
\* accepts.
C15_SizeWithinBounds ==
    initPc = "ready" => (min_size <= size /\ size <= max_size)

\* Task t waits for a connection on the idle queue.
WaitsForIdle(t) == pc[t] \in {"poll", "wait"}

\* C16 (as claimed): waiting acquirers are served in arrival order: a caller that
\* arrives at the pool (calls acquire) while another caller waits for an idle
\* connection is not handed a connection ahead of that caller.
C16_ArrivalOrder ==
    [][\A t, u \in Tasks :
          (WaitsForIdle(t) /\ WaitsForIdle(t)' /\ pc[u] = "start")
              => held'[u] = NoConn]_vars

\* The connections that exist.
Connections == DOMAIN connected

\* The step in which ConnectionPool.close returns.
CloseReturns == closePc # "closed" /\ closePc' = "closed"

WaitsForEver(t) ==
    /\ pc[t] = "wait" /\ t \notin woken
    /\ available = <<>>
    /\ CheckedOut = {}

\* C18 (as claimed): an acquire made after close() has returned, with no other
\* caller releasing, terminates (it returns a new connection or raises), whatever
\* size the pool had reached before the close.
C18_AcquireAfterCloseTerminates ==
    \A t \in Tasks : afterClose[t] => ~WaitsForEver(t)

Awaiting(t) ==
    pc[t] \in {"query_reply", "begin_reply", "body_reply", "exit_reply", "after_reply"}

\* The connection the request of task t was written on.
ReqConn(t) == IF pc[t] = "after_reply" THEN txConn[t] ELSE held[t]

\* The requests in flight on connection c, by the task that wrote them, and the
\* callers that have c checked out.
InFlightOn(c) == {t \in Tasks : Awaiting(t) /\ ReqConn(t) = c}
Users(c) == {t \in Tasks : held[t] = c}

\* C20: in the workloads of Client.query calls and transaction scopes (no
\* transaction object is used outside its scope), every connection has at most one
\* request in flight, written by the one caller that has it checked out, and no
\* connection is checked out by two callers.
C20_OneInFlight ==
    (\A u \in Tasks : pc[u] # "after_reply")
        => \A c \in Connections :
              /\ Cardinality(InFlightOn(c)) <= 1
              /\ Cardinality(Users(c)) <= 1
              /\ InFlightOn(c) \subseteq Users(c)

\* C20 witness: a query and a transaction scope have a request in flight at the same
\* time, each on its own connection.
C20_Witness ==
    \E t, u \in Tasks :
        /\ kind[t] = "query" /\ kind[u] = "tx"
        /\ Awaiting(t) /\ Awaiting(u) /\ pc[u] # "after_reply"
        /\ held[t] # NoConn /\ held[u] # NoConn /\ held[t] # held[u]


\* ------------------------------------------------------- C29
\* The connections in the idle set.
Idle == Range(available)

\* C29: no connection is both in the idle set and held by a caller, and no
\* connection is in the idle set more than once.
C29_IdleNotCheckedOut ==
    /\ Idle \cap CheckedOut = {}
    /\ \A i, j \in DOMAIN available : i # j => available[i] # available[j]

\* C29 witness: after a release one connection is idle while another is held.
C29_Witness ==
    /\ Idle # {}
    /\ CheckedOut # {}
    /\ \E t \in Tasks : nRelease[t] > 0

\* ------------------------------------------------------- C25
\* The requests task t has written so far.
Written(t) == reqs[t]["BEGIN"] + reqs[t]["STMT"] + reqs[t]["COMMIT"] + reqs[t]["ROLLBACK"]

\* The connect attempts that succeeded so far.
Connects == Len(connected)

\* C25: a failed connect attempt ends acquire with that error and no other connect
\* is made in its place; a failed exchange of Client.query ends the call with
\* QueryError without another request or a reconnect; a Client.query call never
\* enters acquire a second time and writes at most one request.
C25_NoRetry ==
    [][\A t \in Tasks :
          /\ \A err \in {"ConnectionError", "TimeoutError"} :
                ConnectFail(t, err)
                    => /\ pc'[t] = "done"
                       /\ result'[t] = err
                       /\ Connects' = Connects
                       /\ size' = size
          /\ \A reply \in Replies \ {"ok"} :
                (kind[t] = "query" /\ QueryReply(t, reply))
                    => /\ pc'[t] = "done"
                       /\ result'[t] = "QueryError"
                       /\ Written(t)' = Written(t)
                       /\ Connects' = Connects
          /\ (kind[t] = "query" /\ pc[t] # "start" /\ ~InAcquire(t)) => ~InAcquire(t)'
          /\ kind'[t] = "query" => Written(t)' <= 1]_vars

\* C25 witness: one query ended with the error of its failed exchange after
\* writing its one request, another with the error of its failed connect.
C25_Witness ==
    \E t, u \in Tasks :
        /\ kind[t] = "query" /\ pc[t] = "done" /\ result[t] = "QueryError" /\ Written(t) = 1
        /\ kind[u] = "query" /\ pc[u] = "done" /\ result[u] \in {"ConnectionError", "TimeoutError"}
        /\ Written(u) = 0

\* ------------------------------------------------------- C28
\* The step in which acquire of task t is called.
AcquireCalled(t) == pc[t] = "start" /\ kind'[t] \in {"query", "tx"}

\* An idle connection became available to task t within its bounded poll: t was
\* woken for it and it is still in the queue.
IdleAppeared(t) == pc[t] = "poll" /\ t \in woken /\ available # <<>>

\* C28 (as claimed): an acquire called while a connection is idle returns it and
\* creates none; a polling acquirer for which an idle connection appeared leaves
\* the poll only by returning it, with no connection created; and after
\* initialize a connection is created only by an acquirer that holds the guard
\* after its poll timed out, with live_count < max_size, the count being
\* incremented in the step that ends the guarded region.
C28_ThreePhaseAcquire ==
    [][\A t \in Tasks :
          /\ (AcquireCalled(t) /\ available # <<>>)
                => (held'[t] = Head(available) /\ size' = size)
          /\ (IdleAppeared(t) /\ pc'[t] # "poll")
                => (held'[t] = Head(available) /\ size' = size)
          /\ (initPc = "ready" /\ pc[t] = "connecting" /\ held'[t] # NoConn)
                => (lock = t /\ size < max_size /\ size' = size + 1 /\ lock' = NoTask)
          /\ (initPc = "ready" /\ size' # size)
                => \E u \in Tasks : pc[u] = "connecting" /\ held'[u] # NoConn]_vars

\* ------------------------------------------------------- callers of the pool itself
\* A caller that uses ConnectionPool directly: conn = await pool.acquire(), then
\* it may close the connection it holds, then await pool.release(conn).

\* The holder calls conn.close() on the connection it holds: the writer is closed;
\* wait_closed returns and _connected is cleared ("ok"), or it raises and
\* _connected stays as it was ("error").
HolderClose(t, outcome) ==
    /\ pc[t] = "holding"
    /\ wclosed' = [wclosed EXCEPT ![held[t]] = TRUE]
    /\ connected' = [connected EXCEPT ![held[t]] = IF outcome = "ok" THEN FALSE ELSE @]
    /\ UNCHANGED <<apiVars, unread, min_size, max_size, size, available, getters, woken, lock, initPc,
                   closePc, closeConn, broken, taskVars>>

\* The holder calls pool.release(conn).
HolderRelease(t) ==
    /\ pc[t] = "holding"
    /\ SetQ(release(Q, held[t]))
    /\ held' = [held EXCEPT ![t] = NoConn]
    /\ nRelease' = [nRelease EXCEPT ![t] = @ + 1]
    /\ result' = [result EXCEPT ![t] = "ok"]
    /\ pc' = [pc EXCEPT ![t] = "done"]
    /\ UNCHANGED <<apiVars, unread, min_size, max_size, size, lock, connected, initPc, closeVars, broken,
                   kind, afterClose, txConn, reqs, bodyRaised, calls>>

NextDirect ==
    \/ Next
    \/ \E t \in Tasks : Call(t, "direct")
    \/ \E t \in Tasks : \E outcome \in {"ok", "error"} : HolderClose(t, outcome)
    \/ \E t \in Tasks : HolderRelease(t)

SpecDirect == Init /\ [][NextDirect]_vars

\* ------------------------------------------------------- C30
\* The connection task t hands to pool.release in the step Releases(t).
Released(t) == IF held[t] # NoConn THEN held[t] ELSE Head(available)

\* C30: release puts the connection at the tail of the idle queue whatever its
\* health, leaving its link state and transport as they are, with _size and the
\* set of connections unchanged; an unusable connection stays unusable, it leaves
\* the idle queue only handed to an acquirer or taken by the pool's close(), and
\* _size never goes down.
C30_ReleaseKeepsUnhealthy ==
    [][/\ \A t \in Tasks :
            Releases(t)
                => /\ available' # <<>>
                   /\ available'[Len(available')] = Released(t)
                   /\ connected'[Released(t)] = connected[Released(t)]
                   /\ wclosed'[Released(t)] = wclosed[Released(t)]
                   /\ broken[Released(t)] => broken'[Released(t)]
                   /\ size' = size
                   /\ Connections' = Connections
       /\ \A c \in Connections :
            Unusable(c)
                => /\ Unusable(c)'
                   /\ (c \in Idle /\ c \notin Idle')
                        => (\E u \in Tasks : held'[u] = c) \/ closeConn' = c
       /\ size' >= size]_vars

\* C30 witness: a connection its holder closed and released was handed to a query,
\* which failed with the not-connected error and released it again: it is idle and
\* not connected.
C30_Witness ==
    \E t \in Tasks :
        /\ kind[t] = "query" /\ pc[t] = "done" /\ result[t] = "NotConnected"
        /\ available # <<>>
        /\ ~connected[available[Len(available)]]

\* ------------------------------------------------------- a Connection used on its own
\* One caller makes the calls of the public API of a Connection object one after
\* another; what the server and the transport do is the other argument of each step.

\* How an attempt to open the link ends.
ConnectOutcomes == {"ok", "timeout", "refused"}

\* What the server sends back, or what the transport does instead: a result, an
\* error-tagged response with or without a message, a line that does not decode
\* (an empty line at end of stream included), a fault of the write or the read.
ServerMessages == {"no such table", "syntax error"}
NoMessage == "none"
Responses ==
    {[type |-> "ok", message |-> NoMessage], [type |-> "invalid", message |-> NoMessage],
     [type |-> "fault", message |-> NoMessage]}
        \cup {[type |-> "error", message |-> m] : m \in ServerMessages \cup {NoMessage}}

\* The exception Connection.connect raises when the attempt fails.
ConnectRaises(outcome) == IF outcome = "timeout" THEN "TimeoutError" ELSE "ConnectionError"

\* Connection.connect: the reader, the writer and _connected are assigned only when
\* the link was opened; a failed attempt changes no field.
ConnConnect(outcome) ==
    /\ conn.op # "del"
    /\ conn' = IF outcome = "ok"
               THEN [connected |-> TRUE, writer |-> "open", lost |-> FALSE,
                     op |-> "connect", result |-> "ok", message |-> <<>>, wrote |-> FALSE]
               ELSE [conn EXCEPT !.op = "connect", !.result = ConnectRaises(outcome),
                                 !.message = <<"Failed to connect: ", outcome>>,
                                 !.wrote = FALSE]
    /\ UNCHANGED <<poolVars, taskVars, unread, client>>

\* response.get("message", "Unknown error") of an error-tagged response.
ServerText(resp) == IF resp.message = NoMessage THEN "Unknown error" ELSE resp.message

\* The message of the QueryError execute raises for a response.  The QueryError
\* raised for an error-tagged response inside the try block is caught by the
\* except Exception clause of the same block and wrapped.
ErrorMessage_Generic(resp) ==
    IF resp.type = "invalid" THEN <<"Invalid response from server: ", "decode error">>
    ELSE <<"Query execution failed: ", "Unknown error">>
ErrorMessage(resp) ==
    IF resp.type = "invalid" THEN <<"Invalid response from server: ", "decode error">>
    ELSE IF resp.type = "error" THEN <<"Query execution failed: ", ServerText(resp)>>
    ELSE <<"Query execution failed: ", "transport error">>

\* Connection.execute.
ConnExecute(resp) ==
    /\ conn.op # "del"
    /\ conn' =
         IF SendOutcome(conn.connected, conn.writer = "closed" \/ conn.lost) = "NotConnected"
         THEN [conn EXCEPT !.op = "execute", !.result = "NotConnected",
                           !.message = <<"Not connected to server">>, !.wrote = FALSE]
         ELSE IF SendOutcome(conn.connected, conn.writer = "closed" \/ conn.lost) = "QueryError"
         THEN [conn EXCEPT !.op = "execute", !.result = "QueryError",
                           !.message = <<"Query execution failed: ", "transport error">>,
                           !.wrote = FALSE]
         ELSE [conn EXCEPT !.op = "execute", !.result = ExecResult(resp.type),
                           !.message = IF resp.type = "ok" THEN <<>> ELSE ErrorMessage(resp),
                           !.wrote = TRUE,
                           !.lost = Breaks(resp.type)]
    /\ UNCHANGED <<poolVars, taskVars, unread, client>>

\* Connection.close: with a writer, writer.close() and then wait_closed(), which
\* raises the error the transport was lost with; _connected is cleared after it.
\* outcome "error": the transport is, or gets, lost with an error.
ConnClose(outcome) ==
    /\ conn.op # "del"
    /\ outcome = "ok" => ~conn.lost
    /\ outcome = "error" => conn.writer # "none"
    /\ conn' = IF outcome = "ok"
               THEN [conn EXCEPT !.op = "close", !.result = "ok", !.message = <<>>,
                                 !.wrote = FALSE, !.connected = FALSE,
                                 !.writer = IF @ = "none" THEN "none" ELSE "closed"]
               ELSE [conn EXCEPT !.op = "close", !.result = "OSError",
                                 !.message = <<"transport error">>,
                                 !.wrote = FALSE, !.writer = "closed", !.lost = TRUE]
    /\ UNCHANGED <<poolVars, taskVars, unread, client>>

\* Connection.__del__: the writer of a connected object is closed, whatever that
\* raises is swallowed; the object is gone.
ConnDel ==
    /\ conn.op # "del"
    /\ conn' = [conn EXCEPT !.op = "del", !.result = "ok", !.message = <<>>,
                            !.wrote = FALSE,
                            !.writer = IF conn.connected /\ @ # "none" THEN "closed" ELSE @]
    /\ UNCHANGED <<poolVars, taskVars, unread, client>>

\* ------------------------------------------------------- text
\* Strings are sequences of pieces of text; + and f-strings concatenate them.
DigitChars == <<"0", "1", "2", "3", "4", "5", "6", "7", "8", "9">>

\* The value of a digit character, -1 for any other piece.
DigitValue(ch) == IF \E d \in DOMAIN DigitChars : DigitChars[d] = ch
                  THEN (CHOOSE d \in DOMAIN DigitChars : DigitChars[d] = ch) - 1
                  ELSE -1

\* Python str(n) of an int.
RECURSIVE str(_)
str(n) ==
    IF n < 0 THEN <<"-">> \o str(-n)
    ELSE IF n < 10 THEN <<DigitChars[n + 1]>>
    ELSE str(n \div 10) \o <<DigitChars[(n % 10) + 1]>>

\* Python int(s) of a string: whether it parses, and its value.
AllDigits(s) == s # <<>> /\ \A i \in DOMAIN s : DigitValue(s[i]) >= 0
IsInt(s) == IF s # <<>> /\ s[1] = "-" THEN AllDigits(Tail(s)) ELSE AllDigits(s)

RECURSIVE DigitsValue(_)
DigitsValue(s) ==
    IF s = <<>> THEN 0 ELSE 10 * DigitsValue(SubSeq(s, 1, Len(s) - 1)) + DigitValue(s[Len(s)])

int(s) == IF s[1] = "-" THEN 0 - DigitsValue(Tail(s)) ELSE DigitsValue(s)

\* ------------------------------------------------------- Client.connect
\* Client.connect, query_at_seq and query_at_time keep no state of their own from
\* one call to the next: each behaviour makes one such call, with any arguments.
\* The address strings: host characters, the separator, digits, a sign.
AddrChars == {"h", ":", "5", "-"}
RECURSIVE SeqsUpTo(_, _)
SeqsUpTo(S, n) ==
    IF n = 0 THEN {<<>>}
    ELSE SeqsUpTo(S, n - 1) \cup {Append(s, x) : s \in SeqsUpTo(S, n - 1), x \in S}
Addresses == SeqsUpTo(AddrChars, MaxAddrLen)

\* address.rsplit(":", 1): split at the last separator, one piece when there is none.
LastSep(a) == IF \E i \in DOMAIN a : a[i] = ":"
              THEN CHOOSE i \in DOMAIN a : a[i] = ":" /\ \A j \in DOMAIN a : a[j] = ":" => j <= i
              ELSE 0
rsplit(a) == IF LastSep(a) = 0 THEN <<a>>
             ELSE <<SubSeq(a, 1, LastSep(a) - 1), SubSeq(a, LastSep(a) + 1, Len(a))>>

\* How pool.initialize ends for the parsed address.
InitializeOutcomes == {"ok", "ConnectionError", "TimeoutError"}

\* Client.connect(address): the unpacking of the split and int(port_str) raise
\* ValueError; then the pool is built and initialized.
ClientConnect(address, outcome) ==
    /\ client = NoCall
    /\ client' =
         IF Len(rsplit(address)) # 2 \/ ~IsInt(rsplit(address)[2])
         THEN [op |-> "connect", args |-> <<address>>, result |-> "ValueError",
               submitted |-> <<>>]
         ELSE [op |-> "connect", args |-> <<address>>, result |-> outcome,
               submitted |-> <<rsplit(address)[1], int(rsplit(address)[2])>>]
    /\ UNCHANGED <<poolVars, taskVars, unread, conn>>

\* ------------------------------------------------------- time-travel queries
SqlTexts == {<<"SELECT * FROM t">>, <<"SELECT * FROM t", ";">>, <<"SELECT ", "'", "a", "'">>}
ParamLists == {<<>>, <<"a", "'">>}
SeqNumbers == (0 - 1)..MaxSeq

\* How the call of self.query ends.
QueryOutcomes == {"ok", "QueryError"}

\* f"{sql} FOR SYSTEM_TIME AS OF @SEQ:{sequence}"
SeqText == " FOR SYSTEM_TIME AS OF @SEQ:"
AsOfSeq(sql, sequence) == sql \o <<SeqText>> \o str(sequence)

\* query_at_seq: the text is rewritten and handed, with params, to self.query,
\* whose outcome is the outcome of the call.
QueryAtSeq(sql, sequence, params, outcome) ==
    /\ client = NoCall
    /\ client' = [op |-> "query_at_seq", args |-> <<sql, sequence, params>>,
                  result |-> outcome,
                  submitted |-> <<[sql |-> AsOfSeq(sql, sequence), params |-> params]>>]
    /\ UNCHANGED <<poolVars, taskVars, unread, conn>>

\* Timestamps given as strings, and as datetime objects.
TimeStrings == {<<"2024-01-01">>, <<>>, <<"x", "'", " OR ", "'", "1">>}
DateTimes ==
    [year : {987, 2024}, month : {1, 12}, day : {9}, hour : {0, 23}, minute : {5},
     second : {30}, microsecond : {0, 5}, utcoffset : {"none", "+00:00"}]
Timestamps ==
    {[type |-> "str", value |-> s] : s \in TimeStrings}
        \cup {[type |-> "datetime", value |-> dt] : dt \in DateTimes}

\* n in decimal, zero-padded to w digits.
Pad(n, w) == IF Len(str(n)) >= w THEN str(n) ELSE [i \in 1..(w - Len(str(n))) |-> "0"] \o str(n)

\* datetime.isoformat(): YYYY-MM-DDTHH:MM:SS, then .ffffff when the microsecond is
\* not zero, then the UTC offset of an aware datetime.
isoformat(dt) ==
    Pad(dt.year, 4) \o <<"-">> \o Pad(dt.month, 2) \o <<"-">> \o Pad(dt.day, 2) \o <<"T">>
        \o Pad(dt.hour, 2) \o <<":">> \o Pad(dt.minute, 2) \o <<":">> \o Pad(dt.second, 2)
        \o (IF dt.microsecond # 0 THEN <<".">> \o Pad(dt.microsecond, 6) ELSE <<>>)
        \o (IF dt.utcoffset = "none" THEN <<>> ELSE <<dt.utcoffset>>)

\* The text of the timestamp: "if isinstance(timestamp, datetime)" converts.
TimeValue(timestamp) ==
    IF timestamp.type = "datetime" THEN isoformat(timestamp.value) ELSE timestamp.value

\* f"{sql} FOR SYSTEM_TIME AS OF '{timestamp}'"
TimeText == " FOR SYSTEM_TIME AS OF '"
AsOfTime_Escaped(sql, timestamp) ==
    sql \o <<TimeText>> \o SelectSeq(TimeValue(timestamp), LAMBDA x : x # "'") \o <<"'">>
AsOfTime(sql, timestamp) == sql \o <<TimeText>> \o TimeValue(timestamp) \o <<"'">>

\* query_at_time: as query_at_seq.
QueryAtTime(sql, timestamp, params, outcome) ==
    /\ client = NoCall
    /\ client' = [op |-> "query_at_time", args |-> <<sql, timestamp, params>>,
                  result |-> outcome,
                  submitted |-> <<[sql |-> AsOfTime(sql, timestamp), params |-> params]>>]
    /\ UNCHANGED <<poolVars, taskVars, unread, conn>>

\* ------------------------------------------------------- the public API, call by call
NextApi ==
    \/ \E outcome \in ConnectOutcomes : ConnConnect(outcome)
    \/ \E resp \in Responses : ConnExecute(resp)
    \/ \E outcome \in {"ok", "error"} : ConnClose(outcome)
    \/ ConnDel
    \/ \E address \in Addresses : \E outcome \in InitializeOutcomes :
            ClientConnect(address, outcome)
    \/ \E sql \in SqlTexts : \E sequence \in SeqNumbers : \E params \in ParamLists :
       \E outcome \in QueryOutcomes : QueryAtSeq(sql, sequence, params, outcome)
    \/ \E sql \in SqlTexts : \E timestamp \in Timestamps : \E params \in ParamLists :
       \E outcome \in QueryOutcomes : QueryAtTime(sql, timestamp, params, outcome)

SpecApi == Init /\ [][NextApi]_vars

\* ------------------------------------------------------- C21 .. C27
\* The transport of the Connection object cannot carry a request.
ConnDead == conn.writer = "closed" \/ conn.lost

\* The step is a call of Connection.execute.
Executes == \E resp \in Responses : ConnExecute(resp)

\* C21 (as claimed): execute on a connection that was never connected (it has no
\* writer) or has been closed (close() was called on its writer) fails with the
\* not-connected ConnectionError, puts no request on the link and leaves
\* _connected and the writer as they were.
C21_ExecuteRequiresConnected ==
    [][(Executes /\ conn.writer \in {"none", "closed"})
          => /\ conn'.result = "NotConnected"
             /\ ~conn'.wrote
             /\ conn'.connected = conn.connected
             /\ conn'.writer = conn.writer]_vars

\* C22 (as claimed): whenever close() was the last call made on the connection, it
\* returned normally and the connection is not connected.
C22_CloseNeverRaises ==
    conn.op = "close" => (conn.result = "ok" /\ ~conn.connected)

\* C23: on a connected connection every exchange that does not end with a result
\* (an error-tagged response, a line that does not decode, a fault of the write or
\* the read, a dead transport) makes execute raise QueryError, the only thing it
\* raises when connected; for an error-tagged response that was read, the message
\* of the QueryError contains the message the server sent.
C23_ExecuteFailureMapping ==
    [][\A resp \in Responses :
          (conn.connected /\ ConnExecute(resp))
              => /\ conn'.result \in {"ok", "QueryError"}
                 /\ conn'.result = "ok" <=> (resp.type = "ok" /\ ~ConnDead)
                 /\ (resp.type = "error" /\ resp.message # NoMessage /\ ~ConnDead)
                        => \E i \in DOMAIN conn'.message : conn'.message[i] = resp.message]_vars

\* C23 witness: execute raised QueryError for an error-tagged response and its
\* message carries the text the server sent.
C23_Witness ==
    /\ conn.op = "execute" /\ conn.result = "QueryError" /\ conn.wrote
    /\ \E i \in DOMAIN conn.message : conn.message[i] \in ServerMessages

\* The failure kinds of the public API ("NotConnected" is a ConnectionError,
\* "TransactionNotStarted" a QueryError).
ErrorKinds ==
    {"ConnectionError", "TimeoutError", "QueryError", "AuthenticationError",
     "NotConnected", "TransactionNotStarted"}

\* C24 (as claimed): every call of the public API ends with a result or with one
\* of the failure kinds.
C24_ClosedTaxonomy ==
    /\ conn.result \in {"none", "ok"} \cup ErrorKinds
    /\ client.result \in {"none", "ok"} \cup ErrorKinds
    /\ \A t \in Tasks : result[t] \in {"none", "ok"} \cup ErrorKinds

\* C26 (as claimed): connect ends with the link state Connected when the link was
\* opened, with TimeoutError when it was not opened in time and with
\* ConnectionError on any other error, the connection being not connected after
\* either failure, and an execute that follows a failed connect fails with the
\* not-connected error.
C26_ConnectOutcomes ==
    [][/\ ConnConnect("ok") => (conn'.result = "ok" /\ conn'.connected)
       /\ ConnConnect("timeout") => (conn'.result = "TimeoutError" /\ ~conn'.connected)
       /\ ConnConnect("refused") => (conn'.result = "ConnectionError" /\ ~conn'.connected)
       /\ (conn.op = "connect" /\ conn.result # "ok" /\ Executes)
             => conn'.result = "NotConnected"]_vars

\* The text the call handed to self.query, the sql it was given, and what follows
\* the given sql in the text from its n-th piece on, less the last k pieces.
Submitted == client.submitted[1].sql
GivenSql == client.args[1]
Appended(n, k) == SubSeq(Submitted, Len(GivenSql) + n, Len(Submitted) - k)

\* The datetime an ISO text denotes (datetime.fromisoformat).
fromisoformat(s) ==
    [year |-> int(SubSeq(s, 1, 4)), month |-> int(SubSeq(s, 6, 7)),
     day |-> int(SubSeq(s, 9, 10)), hour |-> int(SubSeq(s, 12, 13)),
     minute |-> int(SubSeq(s, 15, 16)), second |-> int(SubSeq(s, 18, 19)),
     microsecond |-> IF Len(s) >= 26 /\ s[20] = "." THEN int(SubSeq(s, 21, 26)) ELSE 0,
     utcoffset |-> IF Len(s) \in {20, 27} THEN s[Len(s)] ELSE "none"]

\* The separators of an ISO text are in place.
IsIso(s) ==
    /\ Len(s) \in {19, 20, 26, 27}
    /\ s[5] = "-" /\ s[8] = "-" /\ s[11] = "T" /\ s[14] = ":" /\ s[17] = ":"
    /\ \A i \in {1, 2, 3, 4, 6, 7, 9, 10, 12, 13, 15, 16, 18, 19} : DigitValue(s[i]) >= 0

\* C27: query_at_seq and query_at_time hand exactly one query to self.query, with
\* the params they were given; its text is the given sql followed by the clause:
\* " FOR SYSTEM_TIME AS OF @SEQ:" and the decimal text of the sequence number, or
\* " FOR SYSTEM_TIME AS OF '", the timestamp text and "'", where the timestamp
\* text is the given string as it is, or the ISO text of the given datetime; and
\* the call ends as self.query ended.
C27_TimeTravelRewrite ==
    /\ client.op \in {"query_at_seq", "query_at_time"}
          => /\ Len(client.submitted) = 1
             /\ client.submitted[1].params = client.args[3]
             /\ Len(Submitted) > Len(GivenSql)
             /\ SubSeq(Submitted, 1, Len(GivenSql)) = GivenSql
             /\ client.result \in QueryOutcomes
    /\ client.op = "query_at_seq"
          => /\ Submitted[Len(GivenSql) + 1] = " FOR SYSTEM_TIME AS OF @SEQ:"
             /\ IsInt(Appended(2, 0))
             /\ int(Appended(2, 0)) = client.args[2]
    /\ client.op = "query_at_time"
          => /\ Submitted[Len(GivenSql) + 1] = " FOR SYSTEM_TIME AS OF '"
             /\ Submitted[Len(Submitted)] = "'"
             /\ IF client.args[2].type = "str"
                THEN Appended(2, 1) = client.args[2].value
                ELSE /\ IsIso(Appended(2, 1))
                     /\ fromisoformat(Appended(2, 1)) = client.args[2].value

\* C27 witness: query_at_time was given a timestamp string with a quote in it and
\* params, and handed the text with the quote in it to self.query.
C27_Witness ==
    /\ client.op = "query_at_time"
    /\ client.args[2].type = "str"
    /\ \E i \in DOMAIN client.args[2].value : client.args[2].value[i] = "'"
    /\ client.args[3] # <<>>
    /\ Len(client.submitted) = 1

\* ------------------------------------------------------- C31
\* No Client.query call and no transaction scope is in progress, on an initialized
\* pool that was not closed.
Quiescent ==
    /\ initPc = "ready"
    /\ closePc = "open"
    /\ \A t \in Tasks : pc[t] \in {"start", "done", "after"}

\* C31 (as claimed): whenever no query call and no transaction scope is in
\* progress, every connection created is in the idle set: the idle set has
\* live_count connections.
C31_NoLeakAtQuiescence ==
    Quiescent => Len(available) = size

\* ------------------------------------------------------- C33
\* C33: _size never decreases; it changes only in a step that creates a connection,
\* by one, so that it always counts every connection ever created, the closed
\* ones included.
C33_LiveCountMonotone ==
    [][/\ size' >= size
       /\ size' # size => (size' = size + 1 /\ Connects' = Connects + 1)
       /\ size' = Connects']_vars

\* C33 witness: close() has closed every connection of a pool at capacity, _size
\* still equals max_size, and an acquirer waits at capacity.
C33_Witness ==
    /\ closePc = "closed"
    /\ size = max_size
    /\ \A c \in Connections : wclosed[c]
    /\ \E t \in Tasks : pc[t] = "wait"

\* ------------------------------------------------------- C34
\* C34: when the connect made under the guard fails, acquire raises that error with
\* _size, the connections and the idle queue as they were and no connection
\* handed out, and the guard, which the acquirer held, is free again; the guard is
\* only ever held by an acquirer whose connect is under way.
C34_FailedCreateChangesNothing ==
    [][\A t \in Tasks :
          /\ (pc[t] = "connecting" /\ AcquireRaised(t)')
                => /\ size' = size
                   /\ Connects' = Connects
                   /\ available' = available
                   /\ held'[t] = NoConn
                   /\ lock = t
                   /\ lock' = NoTask
          /\ lock' = t => pc'[t] = "connecting"]_vars

\* C34 witness: after the acquire of one caller failed in its connect, another
\* acquirer holds the guard for its own attempt.
C34_Witness ==
    \E t, u \in Tasks :
        /\ AcquireRaised(t)
        /\ pc[u] = "connecting" /\ lock = u

\* ------------------------------------------------------- C36
\* C36: a scope whose body raised never ends normally: when it is left its caller
\* gets the failure of the body, or the QueryError of the ROLLBACK when that
\* failed; and it gets the failure of the body when the ROLLBACK succeeded.
C36_BodyFailurePropagates ==
    [][\A t \in Tasks :
          /\ (ScopeExits(t) /\ bodyRaised'[t]) => result'[t] \in {"BodyError", "QueryError"}
          /\ (bodyRaised[t] /\ ExitReply(t, "ok")) => result'[t] = "BodyError"]_vars

\* C36 witness: a scope whose body raised was left after its one ROLLBACK
\* succeeded, and its caller got the failure of the body.
C36_Witness ==
    \E t \in Tasks :
        /\ pc[t] = "after" /\ bodyRaised[t]
        /\ reqs[t]["ROLLBACK"] = 1
        /\ result[t] = "BodyError"

\* ------------------------------------------------------- C37
\* C37: when an attempt of initialize() failed, the failure propagated (the client
\* was never handed out, no caller ran), and until the owner of the pool calls
\* its close() the connections made by the earlier attempts are all in the idle
\* queue, open, and their number is the live count, below min_size.
C37_InitializeFailureKeepsPartialState ==
    initPc = "failed" =>
      /\ \A t \in Tasks : pc[t] = "start" /\ held[t] = NoConn
      /\ closePc = "open" =>
        /\ size < min_size
        /\ size = Len(connected)
        /\ Len(available) = size
        /\ \A i \in 1..size : available[i] = i
        /\ \A c \in Connections : connected[c] /\ ~wclosed[c]
        /\ closeConn = NoConn

\* C37 witness: the second attempt of initialize() failed after the first one
\* had put its connection on the idle queue.
C37_Witness ==
    /\ initPc = "failed"
    /\ closePc = "open"
    /\ min_size = 2
    /\ size = 1
    /\ available = <<1>>

\* ------------------------------------------------------- C39
\* Connection c is idle in the queue given.
IdleIn(items, c) == \E i \in DOMAIN items : items[i] = c

\* Connection c entered the idle queue given before connection d did.
EnteredBefore(items, c, d) ==
    \E i, j \in DOMAIN items : i < j /\ items[i] = c /\ items[j] = d

\* C39: idle connections are handed out in the order they entered the idle set:
\* a connection that enters (by initialize or release) comes after every one
\* that is idle, connections that stay idle keep their order, and the connection
\* acquire returns entered before every other idle one.
C39_FifoHandOut ==
    [][/\ \A c, d \in Connections :
            /\ (IdleIn(available, c) /\ IdleIn(available', c) /\ IdleIn(available, d)
                  /\ IdleIn(available', d))
                 => (EnteredBefore(available', c, d) <=> EnteredBefore(available, c, d))
            /\ (IdleIn(available, c) /\ IdleIn(available', c) /\ ~IdleIn(available, d)
                  /\ IdleIn(available', d))
                 => EnteredBefore(available', c, d)
       /\ \A t \in Tasks : \A d \in Connections :
            (held[t] = NoConn /\ held'[t] # NoConn /\ IdleIn(available, held'[t])
               /\ IdleIn(available, d) /\ d # held'[t])
                 => EnteredBefore(available, held'[t], d)]_vars

\* C39 witness: the only caller that ever ran took connection 1 of the two that
\* initialize queued, released it behind connection 2, and on its next call was
\* handed connection 2 while connection 1 was idle.
C39_Witness ==
    \E t, u \in Tasks :
        /\ t # u /\ pc[u] = "start" /\ kind[u] = "none"
        /\ min_size = 2 /\ size = 2 /\ closePc = "open"
        /\ held[t] = 2
        /\ available = <<1>>

\* ------------------------------------------------------- C35
\* Task t, using a transaction, sends a Transaction.execute statement in this step.
SendsStatement(t) == kind'[t] = "tx" /\ reqs'[t]["STMT"] = reqs[t]["STMT"] + 1

\* The scope of task t has made the COMMIT or ROLLBACK attempt of its exit.
ExitAttempted(t) == pc[t] \in {"exit_reply", "after", "after_reply"}

\* The order of a scope between its BEGIN and its exit: a statement is sent on
\* the bound connection, which the scope holds, after BEGIN succeeded and before
\* the attempt of the exit.
StatementInOrder(t) ==
    /\ pc[t] = "body"
    /\ reqs[t]["BEGIN"] = 1
    /\ txConn[t] # NoConn /\ held[t] = txConn[t]
    /\ ~ExitAttempted(t)

\* The entry of a scope: the request that follows the acquire is BEGIN.
BeginFirst(t) ==
    (kind'[t] = "tx" /\ held[t] = NoConn /\ held'[t] # NoConn)
        => /\ reqs[t] = NoReqs
           /\ txConn'[t] = held'[t]
           /\ reqs'[t] \in {NoReqs, [NoReqs EXCEPT !["BEGIN"] = 1]}
           /\ pc'[t] = "begin_reply" <=> reqs'[t]["BEGIN"] = 1

\* The release of a scope: it follows the attempt of the exit, made in this step
\* (it failed at once) or answered in this step.
ReleaseLast(t) ==
    (kind[t] = "tx" /\ Releases(t))
        => /\ pc[t] \in {"body", "body_reply", "exit_reply"}
           /\ ExitAttempted(t)'
           /\ held[t] = txConn[t] /\ held'[t] = NoConn

\* C35: in every transaction scope BEGIN is the first request after the acquire,
\* every Transaction.execute statement is sent on the bound connection after
\* BEGIN succeeded and before the COMMIT or ROLLBACK attempt of the exit, and the
\* release comes only after that attempt.
C35_TransactionOrdering ==
    [][\A t \in Tasks :
          /\ BeginFirst(t)
          /\ SendsStatement(t) => StatementInOrder(t)
          /\ ReleaseLast(t)]_vars

\* ------------------------------------------------------- cancelled queries
\* The replies left unread in all streams.
Unread == SumTo(unread, MaxPoolSize)

\* The task running Client.query is cancelled while execute is suspended in
\* readline, its request written: CancelledError is not an Exception, so it
\* leaves execute past both handlers, the finally clause of query releases the
\* connection, and the reply of the server stays in the stream, unread.
CancelQuery(t) ==
    /\ pc[t] = "query_reply"
    /\ Unread < MaxCancels
    /\ unread' = [unread EXCEPT ![held[t]] = @ + 1]
    /\ result' = [result EXCEPT ![t] = "CancelledError"]
    /\ pc' = [pc EXCEPT ![t] = "done"]
    /\ SetQ(release(Q, held[t]))
    /\ held' = [held EXCEPT ![t] = NoConn]
    /\ nRelease' = [nRelease EXCEPT ![t] = @ + 1]
    /\ UNCHANGED <<apiVars, min_size, max_size, size, lock, connected, initPc, closeVars, broken,
                   kind, afterClose, txConn, reqs, bodyRaised, calls>>

NextCancel ==
    \/ Next
    \/ \E t \in Tasks : CancelQuery(t)

\* The workloads in which callers cancel queries in flight.
SpecCancel == Init /\ [][NextCancel]_vars

\* ------------------------------------------------------- C32
\* Task t reads a line from the stream of its connection in this step: the
\* readline of its execute returns.
ReadsReply(t) ==
    /\ Awaiting(t)
    /\ pc'[t] # pc[t]
    /\ result'[t] # "CancelledError"

\* C32: every line an execute reads is the reply to the request that execute
\* wrote: no reply to an earlier request is unread in the stream of its
\* connection when it reads.
C32_RequestResponsePairing ==
    [][\A t \in Tasks : ReadsReply(t) => unread[ReqConn(t)] = 0]_vars

\* ------------------------------------------------------- fair workloads of queries
\* The answers of a server that answers every request.
Answers == {"ok", "error"}

\* The steps of callers that issue one Client.query after another against a server
\* that answers every request, with connects that always succeed and a pool that
\* is not closed: every caller holds one connection at a time and releases it
\* when its answer arrives.
NextFair ==
    \/ InitializeStep
    \/ InitializeDone
    \/ \E t \in Tasks : Call(t, "query")
    \/ \E t \in Tasks : Resume(t)
    \/ \E t \in Tasks : PollTimeout(t)
    \/ \E t \in Tasks : LockGranted(t)
    \/ \E t \in Tasks : ConnectOk(t)
    \/ \E t \in Tasks : \E reply \in Answers : QueryReply(t, reply)
    \/ \E t \in Tasks : CallAgain(t)

\* The event loop runs every callback that is ready, every timeout fires, every
\* connect completes and the server answers: each step that stays possible is
\* taken in the end.  Callers are not required to call again.
Fairness ==
    /\ WF_vars(InitializeStep)
    /\ WF_vars(InitializeDone)
    /\ \A t \in Tasks :
          /\ WF_vars(Resume(t))
          /\ WF_vars(PollTimeout(t))
          /\ WF_vars(LockGranted(t))
          /\ WF_vars(ConnectOk(t))
          /\ WF_vars(\E reply \in Answers : QueryReply(t, reply))

SpecFair == Init /\ [][NextFair]_vars /\ Fairness

\* ------------------------------------------------------- C38
\* C38: under fair scheduling every call of acquire returns in the end.
C38_AcquireReturns ==
    \A t \in Tasks : InAcquire(t) ~> ~InAcquire(t)

====
